---- MODULE Spec2Model ----
(***************************************************************************)
(* Model of the event de-duplication engine of the IFI events aggregator   *)
(* (src/src/utils/deduplication.py): the similarity model, the merge       *)
(* policy, the clustering pass and the bulk rewrite of the events table.   *)
(*                                                                         *)
(* Encoding.  A Python value that may be None is a sequence of length 0    *)
(* (None) or 1 (the value).  A str is a sequence of one-character strings. *)
(* A datetime is an integer number of minutes; a timedelta likewise.       *)
(* A float in [0,1] (a similarity ratio, a threshold) is kept exact:       *)
(* a ratio is a pair <<numerator, denominator>>, a threshold a percentage. *)
(***************************************************************************)
EXTENDS Integers, Sequences, FiniteSets, TLC

VARIABLES
    event1, event2, config,     \* inputs of the pure functions
    is_dup, merged,             \* their results (None before the call)
    db,                         \* the committed rows of table events
    txn,                        \* the uncommitted view of the writing connection
    pc,                         \* position of deduplicate_database
    events,                     \* the Event objects loaded by the SELECT
    merged_events,              \* the clustering result
    duplicate_count,
    inserted,                   \* number of merged_events re-inserted so far
    pre_db,                     \* table contents when the current run started
    runs,                       \* history of completed runs
    seen,                       \* what a concurrent reader read last
    config_low, res_high, res_low,  \* clustering under two thresholds
    cache_config,               \* the CacheConfig of the scraper
    cache,                      \* the cache file of the request (None: no file)
    call,                       \* the arguments of the decorated call
    fetch_pc,                   \* position of the decorated call
    live_calls,                 \* number of calls of the wrapped function
    result,                     \* what the decorated call returned or raised
    attempts,                   \* the loop counter of _fetch_posts
    checks,                     \* number of _check_status calls
    ready                       \* a status check reported ready

vars == <<event1, event2, config, is_dup, merged, db, txn, pc, events,
          merged_events, duplicate_count, inserted, pre_db, runs, seen,
          config_low, res_high, res_low, cache_config, cache, call, fetch_pc,
          live_calls, result, attempts, checks, ready>>

pairVars == <<event1, event2, is_dup, merged>>
storeVars == <<db, txn, pc, events, merged_events, duplicate_count, inserted,
               pre_db, runs, seen>>
clusterVars == <<config_low, res_high, res_low>>
fetchVars == <<cache_config, cache, call, fetch_pc, live_calls, result, attempts,
               checks, ready>>

----------------------------------------------------------------------------
(* Python values *)

None == <<>>
Some(x) == <<x>>
Val(v) == v[1]

\* bool(v) of an optional str: None and "" are falsy
TruthyStr(v) == v # None /\ Val(v) # <<>>
\* bool(v) of an optional int (an id): None and 0 are falsy
TruthyInt(v) == v # None /\ Val(v) # 0
\* bool(v) of an optional datetime: only None is falsy
TruthyTime(v) == v # None

\* a or b
OrStr(a, b) == IF TruthyStr(a) THEN a ELSE b
OrInt(a, b) == IF TruthyInt(a) THEN a ELSE b
OrTime(a, b) == IF TruthyTime(a) THEN a ELSE b

Min(a, b) == IF b < a THEN b ELSE a
Max(a, b) == IF b > a THEN b ELSE a
Abs(x) == IF x < 0 THEN -x ELSE x

\* the value a raised TypeError leaves in place of a result
TypeError == "TypeError"

----------------------------------------------------------------------------
(* str.lower() and str.split() on the modelled alphabet *)

UpperCase == <<"A", "B", "C", "D", "E", "F", "G", "H", "I", "J", "K", "L", "M",
               "N", "O", "P", "Q", "R", "S", "T", "U", "V", "W", "X", "Y", "Z">>
LowerCase == <<"a", "b", "c", "d", "e", "f", "g", "h", "i", "j", "k", "l", "m",
               "n", "o", "p", "q", "r", "s", "t", "u", "v", "w", "x", "y", "z">>
LowerOf ==
    [c \in {UpperCase[n] : n \in 1..Len(UpperCase)} |->
        LowerCase[CHOOSE n \in 1..Len(UpperCase) : UpperCase[n] = c]]
lower_char(c) == IF c \in DOMAIN LowerOf THEN LowerOf[c] ELSE c
lower(text) == [n \in 1..Len(text) |-> lower_char(text[n])]

Whitespace == {" ", "\t"}

\* ' '.join(text.split()): runs of whitespace become one blank, the ends are stripped
RECURSIVE join_split(_, _, _)
join_split(text, n, out) ==
    IF n > Len(text) THEN out
    ELSE IF text[n] \in Whitespace THEN join_split(text, n + 1, out)
    ELSE IF out # <<>> /\ n > 1 /\ text[n - 1] \in Whitespace
         THEN join_split(text, n + 1, out \o <<" ", text[n]>>)
         ELSE join_split(text, n + 1, Append(out, text[n]))

normalize_string(text, cfg) ==
    IF text = <<>> THEN <<>>
    ELSE LET t1 == IF cfg.ignore_case THEN lower(text) ELSE text
         IN IF cfg.normalize_whitespace THEN join_split(t1, 1, <<>>) ELSE t1

----------------------------------------------------------------------------
(* difflib.SequenceMatcher(None, a, b).ratio(), for strings shorter than   *)
(* 200 characters (no junk, no "popular" elements)                          *)

RECURSIVE CommonLen(_, _, _, _, _, _)
CommonLen(a, b, i, j, ahi, bhi) ==
    IF i > ahi \/ j > bhi THEN 0
    ELSE IF a[i] # b[j] THEN 0
    ELSE 1 + CommonLen(a, b, i + 1, j + 1, ahi, bhi)

\* the longest block a[i..i+k-1] = b[j..j+k-1] inside a[alo..ahi], b[blo..bhi]; of
\* the longest ones the one that starts earliest in a and, of those, earliest in b
find_longest_match(a, b, alo, ahi, blo, bhi) ==
    LET blocks == {<<i, j, CommonLen(a, b, i, j, ahi, bhi)>> :
                      i \in alo..ahi, j \in blo..bhi}
        longest == CHOOSE k \in {m[3] : m \in blocks} :
                      \A m \in blocks : m[3] <= k
        first_i == CHOOSE i \in {m[1] : m \in {n \in blocks : n[3] = longest}} :
                      \A m \in blocks : m[3] = longest => i <= m[1]
        first_j == CHOOSE j \in {m[2] : m \in {n \in blocks : n[3] = longest /\ n[1] = first_i}} :
                      \A m \in blocks : (m[3] = longest /\ m[1] = first_i) => j <= m[2]
    IN <<first_i, first_j, longest>>

\* sum of the sizes of get_matching_blocks(): the longest block, then the
\* blocks to its left and to its right
RECURSIVE matches(_, _, _, _, _, _)
MatchesAround(a, b, alo, ahi, blo, bhi, m) ==
    IF m[3] = 0 THEN 0
    ELSE m[3] + matches(a, b, alo, m[1] - 1, blo, m[2] - 1)
              + matches(a, b, m[1] + m[3], ahi, m[2] + m[3], bhi)
matches(a, b, alo, ahi, blo, bhi) ==
    IF alo > ahi \/ blo > bhi THEN 0
    ELSE MatchesAround(a, b, alo, ahi, blo, bhi,
                       find_longest_match(a, b, alo, ahi, blo, bhi))

\* 2.0 * matches / (len(a) + len(b)), 1.0 for two empty strings
ratio(a, b) ==
    IF Len(a) + Len(b) = 0 THEN <<1, 1>>
    ELSE <<2 * matches(a, b, 1, Len(a), 1, Len(b)), Len(a) + Len(b)>>

calculate_title_similarity(title1, title2, cfg) ==
    ratio(normalize_string(title1, cfg), normalize_string(title2, cfg))

\* ratio < threshold, the threshold a percentage
RatioBelow(r, threshold) == r[1] * 100 < threshold * r[2]

----------------------------------------------------------------------------
(* DuplicateConfig and its defaults *)

DefaultThreshold == 85
DefaultTimeWindow == 120

DuplicateConfig(threshold, window, same_location, exact_time, icase, nspace) ==
    [title_similarity_threshold |-> threshold,
     time_window_minutes |-> window,
     require_same_location |-> same_location,
     require_exact_time |-> exact_time,
     ignore_case |-> icase,
     normalize_whitespace |-> nspace]

DefaultConfig ==
    DuplicateConfig(DefaultThreshold, DefaultTimeWindow, FALSE, FALSE, TRUE, TRUE)

----------------------------------------------------------------------------
(* Event built from keyword arguments: title and start_time are NOT NULL, every other column   *)
(* may be None, and a column the constructor is not given is None.         *)
(* description, source_name, source_url, food, registration_url,           *)
(* attachment and author are texts built of opaque pieces.                 *)

Event(id, title, description, start_time, end_time, location, source_name, created_at) ==
    [id |-> id, title |-> title, description |-> description,
     start_time |-> start_time, end_time |-> end_time, location |-> location,
     source_name |-> source_name, created_at |-> created_at,
     source_url |-> None, fetched_at |-> None, capacity |-> None,
     spots_left |-> None, registration_opens |-> None,
     registration_url |-> None, food |-> None, attachment |-> None,
     author |-> None]

----------------------------------------------------------------------------
(* The similarity model *)

\* lines 54-56: the title check rejects the pair
TitleRejects(e1, e2, cfg) ==
    LET title_similarity == calculate_title_similarity(e1.title, e2.title, cfg)
    IN RatioBelow(title_similarity, cfg.title_similarity_threshold)

\* lines 68-72: the location check, when required, rejects the pair
LocationRejects(e1, e2, cfg) ==
    /\ cfg.require_same_location
    /\ normalize_string(Val(OrStr(e1.location, Some(<<>>))), cfg)
         # normalize_string(Val(OrStr(e2.location, Some(<<>>))), cfg)

\* a variant that rejects records of different sources
are_events_duplicate_same_source(e1, e2, cfg) ==
    IF e1.source_name # e2.source_name THEN FALSE
    ELSE IF TitleRejects(e1, e2, cfg) THEN FALSE
    ELSE IF cfg.require_exact_time
              /\ (e1.start_time # e2.start_time \/ e1.end_time # e2.end_time)
         THEN FALSE
    ELSE IF ~cfg.require_exact_time
              /\ Abs(e1.start_time - e2.start_time) > cfg.time_window_minutes
         THEN FALSE
    ELSE IF LocationRejects(e1, e2, cfg) THEN FALSE
    ELSE TRUE

\* a variant whose time window excludes its boundary
are_events_duplicate_open_window(e1, e2, cfg) ==
    IF TitleRejects(e1, e2, cfg) THEN FALSE
    ELSE IF cfg.require_exact_time
              /\ (e1.start_time # e2.start_time \/ e1.end_time # e2.end_time)
         THEN FALSE
    ELSE IF ~cfg.require_exact_time
              /\ Abs(e1.start_time - e2.start_time) >= cfg.time_window_minutes
         THEN FALSE
    ELSE IF LocationRejects(e1, e2, cfg) THEN FALSE
    ELSE TRUE

\* a variant whose exact-time check forgets end_time
are_events_duplicate_start_only(e1, e2, cfg) ==
    IF TitleRejects(e1, e2, cfg) THEN FALSE
    ELSE IF cfg.require_exact_time /\ e1.start_time # e2.start_time THEN FALSE
    ELSE IF ~cfg.require_exact_time
              /\ Abs(e1.start_time - e2.start_time) > cfg.time_window_minutes
         THEN FALSE
    ELSE IF LocationRejects(e1, e2, cfg) THEN FALSE
    ELSE TRUE

are_events_duplicate(e1, e2, cfg) ==
    IF TitleRejects(e1, e2, cfg) THEN FALSE
    ELSE IF cfg.require_exact_time
              /\ (e1.start_time # e2.start_time \/ e1.end_time # e2.end_time)
         THEN FALSE
    ELSE IF ~cfg.require_exact_time
              /\ Abs(e1.start_time - e2.start_time) > cfg.time_window_minutes
         THEN FALSE
    ELSE IF LocationRejects(e1, e2, cfg) THEN FALSE
    ELSE TRUE

----------------------------------------------------------------------------
(* The merge policy *)

\* what a call that raised leaves instead of a value
Raised(exc) == [exception |-> exc]
IsRaised(r) == "exception" \in DOMAIN r

\* str(x) inside an f-string
Format(text) == IF text = None THEN <<"None">> ELSE Val(text)

\* list(filter(None, [x, y])) of two optional texts
FilterNone(x, y) ==
    (IF TruthyStr(x) THEN <<Val(x)>> ELSE <<>>) \o (IF TruthyStr(y) THEN <<Val(y)>> ELSE <<>>)

\* source_urls[0] if source_urls else None
FirstOrNone(l) == IF Len(l) > 0 THEN Some(l[1]) ELSE None

\* a variant that keeps the title of the second event
merged_title_of_second(e1, e2) == e2.title

\* line 117: keep the title from the first event
merged_title(e1, e2) == e1.title

\* a merge that keeps the start of the first event
merged_start_time_of_first(e1, e2) == e1.start_time

\* line 119: start_time=min(event1.start_time, event2.start_time)
merged_start_time(e1, e2) == Min(e1.start_time, e2.start_time)

\* a merge whose result is a fresh record without an id
id_to_keep_none(e1, e2) == None

\* lines 82-86: the id of the record that was created first
id_to_keep(e1, e2) ==
    IF TruthyTime(e1.created_at) /\ TruthyTime(e2.created_at)
    THEN IF Val(e1.created_at) < Val(e2.created_at) THEN e1.id ELSE e2.id
    ELSE OrInt(e1.id, e2.id)

merge_events(e1, e2) ==
    LET description ==
            IF TruthyStr(e2.description) /\ e2.description # e1.description
            THEN Some(Format(e1.description)
                        \o <<"\n\nAlternative description:\n">>
                        \o Val(e2.description))
            ELSE e1.description
        location == OrStr(e1.location, e2.location)
        source_urls == FilterNone(e1.source_url, e2.source_url)
        source_names == FilterNone(e1.source_name, e2.source_name)
        registration_opens ==
            IF TruthyTime(e1.registration_opens) /\ TruthyTime(e2.registration_opens)
            THEN Some(Min(Val(e1.registration_opens), Val(e2.registration_opens)))
            ELSE OrTime(e1.registration_opens, e2.registration_opens)
        registration_urls == FilterNone(e1.registration_url, e2.registration_url)
        capacity == OrInt(e1.capacity, e2.capacity)
        spots_left == OrInt(e1.spots_left, e2.spots_left)
        food == OrStr(e1.food, e2.food)
        source_name ==
            IF Len(source_names) > 1
            THEN Some(source_names[1] \o <<", ">> \o source_names[2])
            ELSE IF Len(source_names) = 1 THEN Some(source_names[1]) ELSE None
        created_at ==
            IF TruthyTime(e1.created_at) /\ TruthyTime(e2.created_at)
            THEN Some(Min(Val(e1.created_at), Val(e2.created_at)))
            ELSE OrTime(e1.created_at, e2.created_at)
    IN \* max(event1.end_time, event2.end_time) compares None with a datetime
       IF e1.end_time = None \/ e2.end_time = None THEN Raised(TypeError)
       ELSE [Event(id_to_keep(e1, e2), merged_title(e1, e2), description,
                   merged_start_time(e1, e2),
                   Some(Max(Val(e1.end_time), Val(e2.end_time))),
                   location, source_name, created_at)
               EXCEPT !.source_url = FirstOrNone(source_urls),
                      !.capacity = capacity,
                      !.spots_left = spots_left,
                      !.food = food,
                      !.registration_opens = registration_opens,
                      !.registration_url = FirstOrNone(registration_urls)]

----------------------------------------------------------------------------
(* The clustering pass of deduplicate_database (lines 174-195)              *)

\* the inner loop, from events[j] on: current_event absorbs every later
\* record that is not processed yet and is a duplicate of it
RECURSIVE merge_following(_, _, _, _, _, _)

\* an inner loop that forgets to mark the absorbed record as processed
AbsorbDuplicate_unmarked(evs, j, m, processed_ids, count, cfg) ==
    IF IsRaised(m) THEN m
    ELSE merge_following(evs, j + 1, m, processed_ids, count + 1, cfg)

\* lines 189-191: the accumulator takes the merged record, the absorbed record
\* is marked as processed and counted
AbsorbDuplicate(evs, j, m, processed_ids, count, cfg) ==
    IF IsRaised(m) THEN m
    ELSE merge_following(evs, j + 1, m, processed_ids \cup {evs[j].id},
                         count + 1, cfg)
merge_following(evs, j, current_event, processed_ids, count, cfg) ==
    IF j > Len(evs)
    THEN [current_event |-> current_event, processed_ids |-> processed_ids,
          duplicate_count |-> count]
    ELSE IF evs[j].id \in processed_ids
    THEN merge_following(evs, j + 1, current_event, processed_ids, count, cfg)
    ELSE IF are_events_duplicate(current_event, evs[j], cfg)
    THEN AbsorbDuplicate(evs, j, merge_events(current_event, evs[j]),
                         processed_ids, count, cfg)
    ELSE merge_following(evs, j + 1, current_event, processed_ids, count, cfg)

\* the outer loop, from events[i] on
RECURSIVE find_and_merge(_, _, _, _, _, _)
AppendMerged(evs, i, merged_list, r, cfg) ==
    IF IsRaised(r) THEN r
    ELSE find_and_merge(evs, i + 1, Append(merged_list, r.current_event),
                        r.processed_ids \cup {evs[i].id}, r.duplicate_count, cfg)
find_and_merge(evs, i, merged_list, processed_ids, count, cfg) ==
    IF i > Len(evs)
    THEN [merged_events |-> merged_list, duplicate_count |-> count]
    ELSE IF evs[i].id \in processed_ids
    THEN find_and_merge(evs, i + 1, merged_list, processed_ids, count, cfg)
    ELSE AppendMerged(evs, i, merged_list,
                      merge_following(evs, i + 1, evs[i], processed_ids, count, cfg),
                      cfg)

\* merged_events and duplicate_count of the pass over the loaded events
find_and_merge_duplicates(evs, cfg) == find_and_merge(evs, 1, <<>>, {}, 0, cfg)

----------------------------------------------------------------------------
(* check_duplicate_before_insert (lines 229-276)                            *)

\* datetime.isoformat() of an instant of one UTC-offset period: a text of
\* fixed width, here the three decimal digits of the minute
IsoFormat(t) == <<t \div 100, (t \div 10) % 10, t % 10>>

\* datetime.fromisoformat()
FromIsoFormat(text) == text[1] * 100 + text[2] * 10 + text[3]

\* the comparison of two TEXT values in SQLite: character by character
RECURSIVE TextLeq(_, _)
TextLeq(x, y) ==
    IF x = <<>> THEN TRUE
    ELSE IF y = <<>> THEN FALSE
    ELSE IF Head(x) # Head(y) THEN Head(x) < Head(y)
    ELSE TextLeq(Tail(x), Tail(y))

\* lines 238-249: WHERE start_time BETWEEN ? AND ?
InTimeWindow(row, new_event, cfg) ==
    LET start_time_min == IsoFormat(new_event.start_time - cfg.time_window_minutes)
        start_time_max == IsoFormat(new_event.start_time + cfg.time_window_minutes)
    IN /\ TextLeq(start_time_min, IsoFormat(row.start_time))
       /\ TextLeq(IsoFormat(row.start_time), start_time_max)

\* lines 253-268: the Event built from a fetched row; the SELECT leaves out
\* fetched_at, attachment and author
RowToEvent(row) ==
    [row EXCEPT !.start_time = FromIsoFormat(IsoFormat(row.start_time)),
                !.fetched_at = None, !.attachment = None, !.author = None]

\* lines 251-274: the first fetched row that is a duplicate and merges; an
\* exception of the comparison or of the merge is logged and the loop goes on
RECURSIVE check_rows(_, _, _, _)
check_rows(new_event, rows, k, cfg) ==
    IF k > Len(rows) THEN None
    ELSE IF ~InTimeWindow(rows[k], new_event, cfg)
    THEN check_rows(new_event, rows, k + 1, cfg)
    ELSE IF are_events_duplicate(new_event, RowToEvent(rows[k]), cfg)
              /\ ~IsRaised(merge_events(RowToEvent(rows[k]), new_event))
    THEN Some(merge_events(RowToEvent(rows[k]), new_event))
    ELSE check_rows(new_event, rows, k + 1, cfg)

\* rows: the table in the order in which the SELECT returns it
check_duplicate_before_insert(new_event, rows, cfg) ==
    check_rows(new_event, rows, 1, cfg)

----------------------------------------------------------------------------
(* The pure functions applied to a pair of events: the arguments are drawn *)
(* from the sets below.                                                    *)

\* "A b", "A b c" (ratio 0.75 to the first) and " a  b" (the first, normalized)
TitleAb == <<"A", " ", "b">>
TitleAbc == <<"A", " ", "b", " ", "c">>
TitleAbSpaced == <<" ", "a", " ", " ", "b">>

PairTitles == {TitleAb, TitleAbc, TitleAbSpaced}
PairStartTimes == {0, 30, 120, 121}
PairEndTimes == {None, Some(180), Some(240)}
PairLocations ==
    {None, Some(<<"R", "o", "o", "m">>), Some(<<"r", "o", "o", "m", " ">>)}
PairSources == {Some(<<"source1">>), Some(<<"source2">>)}

PairConfigs ==
    {DefaultConfig,
     DuplicateConfig(70, DefaultTimeWindow, FALSE, FALSE, TRUE, TRUE),
     DuplicateConfig(DefaultThreshold, 30, FALSE, FALSE, TRUE, TRUE),
     DuplicateConfig(DefaultThreshold, DefaultTimeWindow, TRUE, FALSE, TRUE, TRUE),
     DuplicateConfig(DefaultThreshold, DefaultTimeWindow, FALSE, TRUE, TRUE, TRUE),
     DuplicateConfig(DefaultThreshold, DefaultTimeWindow, TRUE, TRUE, FALSE, FALSE)}

\* the state of the store and of the clustering comparison while only the
\* pure functions are exercised
StoreIdle ==
    /\ db = {} /\ txn = None /\ pc = "idle" /\ events = <<>>
    /\ merged_events = <<>> /\ duplicate_count = 0 /\ inserted = 0
    /\ pre_db = {} /\ runs = <<>> /\ seen = None
ClusterIdle ==
    /\ config_low = DefaultConfig /\ res_high = None /\ res_low = None
FetchIdle ==
    /\ cache_config = None /\ cache = None /\ call = None /\ fetch_pc = "idle"
    /\ live_calls = 0 /\ result = None /\ attempts = 0 /\ checks = 0
    /\ ready = FALSE

InitPair ==
    /\ event1 \in {Event(Some(1), t, Some(<<"Test Description">>), s, e, l, n, Some(0)) :
                     t \in PairTitles, s \in {0, 121}, e \in PairEndTimes,
                     l \in {None, Some(<<"R", "o", "o", "m">>)},
                     n \in {Some(<<"source1">>)}}
    /\ event2 \in {Event(None, t, Some(<<"Test Description">>), s, e, l, n, None) :
                     t \in PairTitles, s \in PairStartTimes, e \in PairEndTimes,
                     l \in PairLocations, n \in PairSources}
    /\ config \in PairConfigs
    /\ is_dup = None
    /\ merged = None
    /\ StoreIdle
    /\ ClusterIdle
    /\ FetchIdle

\* are_events_duplicate(event1, event2, config)
Compare ==
    /\ is_dup = None
    /\ is_dup' = Some(are_events_duplicate(event1, event2, config))
    /\ UNCHANGED <<event1, event2, config, merged, storeVars, clusterVars,
                   fetchVars>>

\* merge_events(event1, event2)
Merge ==
    /\ is_dup # None
    /\ merged = None
    /\ merged' = Some(merge_events(event1, event2))
    /\ UNCHANGED <<event1, event2, config, is_dup, storeVars, clusterVars,
                   fetchVars>>

NextPair == Compare \/ Merge

SpecPair == InitPair /\ [][NextPair]_vars

----------------------------------------------------------------------------
(* Claims about the similarity model and the merge policy (SpecPair)       *)

Gap == Abs(event1.start_time - event2.start_time)

\* the three checks as the specification words them
TitlePasses ==
    LET r == ratio(normalize_string(event1.title, config),
                   normalize_string(event2.title, config))
    IN r[1] * 100 >= config.title_similarity_threshold * r[2]
EndTimesEqual ==
    \/ event1.end_time = None /\ event2.end_time = None
    \/ /\ event1.end_time # None /\ event2.end_time # None
       /\ Val(event1.end_time) = Val(event2.end_time)
TimePasses ==
    IF config.require_exact_time
    THEN event1.start_time = event2.start_time /\ EndTimesEqual
    ELSE Gap <= config.time_window_minutes
NormalizedLocation(e) ==
    IF e.location = None THEN <<>> ELSE normalize_string(Val(e.location), config)
LocationPasses ==
    config.require_same_location
        => NormalizedLocation(event1) = NormalizedLocation(event2)

\* C1 (as stated): whenever the source_name values of the two records differ,
\* are_events_duplicate returns false.
C1_SourceIsolation ==
    (is_dup # None /\ event1.source_name # event2.source_name)
        => Val(is_dup) = FALSE

\* C1 (amended): are_events_duplicate does not read source_name: for two
\* records whose source_name values differ it returns what it returns for the
\* same two records with the source_name of the first set to that of the second.
C1_SourceIgnored ==
    (is_dup # None /\ event1.source_name # event2.source_name)
        => Val(is_dup) = are_events_duplicate(
                            [event1 EXCEPT !.source_name = event2.source_name],
                            event2, config)

C1_Witness ==
    /\ is_dup = Some(TRUE)
    /\ event1.source_name # event2.source_name

\* C2: under the default DuplicateConfig two events with identical titles and
\* start_time values at most 120 minutes apart are duplicates, whatever their
\* source_name values are ('source1' and 'source2' in the test).
C2_SameTitleWithinWindow ==
    (/\ is_dup # None
     /\ config = DefaultConfig
     /\ event1.title = event2.title
     /\ Gap <= DefaultTimeWindow)
        => Val(is_dup) = TRUE

C2_Witness ==
    /\ is_dup = Some(TRUE)
    /\ config = DefaultConfig
    /\ event1.title = event2.title
    /\ Gap = 30
    /\ event1.source_name = Some(<<"source1">>)
    /\ event2.source_name = Some(<<"source2">>)

\* C7: without exact-time matching and with the title and location checks
\* passing, a start_time gap of exactly time_window makes the records
\* duplicates and a larger gap makes them not duplicates.
C7_TimeWindowBoundary ==
    (/\ is_dup # None
     /\ ~config.require_exact_time
     /\ TitlePasses
     /\ LocationPasses)
        => /\ Gap = config.time_window_minutes => Val(is_dup) = TRUE
           /\ Gap > config.time_window_minutes => Val(is_dup) = FALSE

C7_Witness ==
    /\ is_dup = Some(TRUE)
    /\ ~config.require_exact_time
    /\ TitlePasses
    /\ LocationPasses
    /\ Gap = config.time_window_minutes

\* C8: are_events_duplicate returns true exactly when the title ratio reaches
\* the threshold, the time check holds (exact: start_time and end_time both
\* equal, two absent end times equal, an absent one unequal to a present one;
\* otherwise the start gap within the window) and, if required, the
\* normalized locations are equal.
C8_AllActiveChecks ==
    is_dup # None
        => Val(is_dup) = (TitlePasses /\ TimePasses /\ LocationPasses)

C8_Witness ==
    /\ is_dup = Some(TRUE)
    /\ config.require_exact_time
    /\ config.require_same_location
    /\ event1.end_time = None
    /\ event2.end_time = None
    /\ event1.location = None
    /\ event2.location = None

\* C9: merge_events(a, b) yields a record whose start_time is the earlier of
\* a.start_time and b.start_time, for every pair of records.
C9_StartIsEarlier ==
    merged # None
        => /\ ~IsRaised(Val(merged))
           /\ Val(merged).start_time = Min(event1.start_time, event2.start_time)

\* C10: merge_events yields the later end_time when both are present, the
\* present one when exactly one is, and none when both are absent.
C10_EndIsLater ==
    merged # None
        => /\ ~IsRaised(Val(merged))
           /\ Val(merged).end_time =
                IF event1.end_time # None /\ event2.end_time # None
                THEN Some(Max(Val(event1.end_time), Val(event2.end_time)))
                ELSE IF event1.end_time # None THEN event1.end_time
                ELSE event2.end_time

\* C11: for records that have a title, a start_time and a source_name, with
\* the other columns possibly absent, merging a pair that are_events_duplicate
\* accepted (as the clustering loop does) completes with a record and raises
\* no error.
C11_NeverRaises ==
    (merged # None /\ is_dup = Some(TRUE)
       /\ event1.source_name # None /\ event2.source_name # None)
        => ~IsRaised(Val(merged))

----------------------------------------------------------------------------
(* merge_events applied to two records whose optional columns vary          *)

MergeDescriptions == {None, Some(<<>>), Some(<<"d1">>), Some(<<"d2">>)}
MergeSources == {None, Some(<<"source1">>), Some(<<"source2">>)}
MergeInstants == {None, Some(1), Some(2)}

\* the first record: a stored row (it has an id)
MergeFirst ==
    {[Event(Some(1), TitleAb, d, 0, Some(180), l, n, c)
        EXCEPT !.fetched_at = f, !.author = Some(<<"club1">>)] :
       d \in {None, Some(<<"d1">>)}, l \in {None, Some(<<"R", "o", "o", "m">>)},
       n \in {None, Some(<<"source1">>)}, c \in MergeInstants,
       f \in {None, Some(1)}}

\* the second record: another stored row or a record that is not stored yet
MergeSecond ==
    {[Event(i, t, d, 30, e, Some(<<"H", "a", "l", "l">>), n, c)
        EXCEPT !.fetched_at = f, !.author = Some(<<"club2">>)] :
       i \in {None, Some(2)}, t \in {TitleAb, TitleAbc}, d \in MergeDescriptions,
       e \in {None, Some(240)}, n \in MergeSources, c \in MergeInstants,
       f \in MergeInstants}

InitMerge ==
    /\ event1 \in MergeFirst
    /\ event2 \in MergeSecond
    /\ config = DefaultConfig
    /\ is_dup = None
    /\ merged = None
    /\ StoreIdle
    /\ ClusterIdle
    /\ FetchIdle

SpecMerge == InitMerge /\ [][NextPair]_vars

\* merge_events returned a record
Returned == merged # None /\ ~IsRaised(Val(merged))

\* the roles of section 4.2 of the specification: the record with the later
\* fetched_at is the base, an absent fetched_at counting as the oldest
FetchedRank(e) == IF e.fetched_at = None THEN -1 ELSE Val(e.fetched_at)
FirstIsFresher == FetchedRank(event1) > FetchedRank(event2)
SecondIsFresher == FetchedRank(event2) > FetchedRank(event1)
Base == IF SecondIsFresher THEN event2 ELSE event1
Donor == IF SecondIsFresher THEN event1 ELSE event2

\* C12: the merged id is the id of the input with the earlier created_at; of
\* two stored records of which one has a created_at, the id of that one; when
\* the created_at values are equal, the id of the fresher record.
C12_IdentityRule ==
    Returned =>
        LET c1 == event1.created_at
            c2 == event2.created_at
            m == Val(merged)
        IN /\ (c1 # None /\ c2 # None /\ Val(c1) < Val(c2)) => m.id = event1.id
           /\ (c1 # None /\ c2 # None /\ Val(c2) < Val(c1)) => m.id = event2.id
           /\ (c1 # None /\ c2 = None /\ event1.id # None /\ event2.id # None)
                 => m.id = event1.id
           /\ (c1 = None /\ c2 # None /\ event1.id # None /\ event2.id # None)
                 => m.id = event2.id
           /\ (c1 # None /\ c2 # None /\ Val(c1) = Val(c2) /\ FirstIsFresher)
                 => m.id = event1.id
           /\ (c1 # None /\ c2 # None /\ Val(c1) = Val(c2) /\ SecondIsFresher)
                 => m.id = event2.id

\* C13: when one record has the later fetched_at, the merged record carries
\* that record's title, location and author.
C13_BaseWins ==
    (Returned /\ (FirstIsFresher \/ SecondIsFresher))
        => /\ Val(merged).title = Base.title
           /\ Val(merged).location = Base.location
           /\ Val(merged).author = Base.author

\* C14: merge_events(event1, event2) always yields a record, and its title
\* is the title of event1.
C14_TitleOfFirst ==
    merged # None
        => /\ ~IsRaised(Val(merged))
           /\ Val(merged).title = event1.title

\* C15: when the two source_name values are equal the merged source_name is
\* that value; when exactly one of them is non-empty it is that one.
C15_SourceName ==
    Returned =>
        /\ event1.source_name = event2.source_name
              => Val(merged).source_name = event1.source_name
        /\ (TruthyStr(event1.source_name) /\ ~TruthyStr(event2.source_name))
              => Val(merged).source_name = event1.source_name
        /\ (~TruthyStr(event1.source_name) /\ TruthyStr(event2.source_name))
              => Val(merged).source_name = event2.source_name

AlternativeLabel == "\n\nAlternative description:\n"
ContainsText(text, part) ==
    \E n \in 0..(Len(text) - Len(part)) : SubSeq(text, n + 1, n + Len(part)) = part
EndsWithAlternative(text, part) ==
    /\ Len(text) > Len(part)
    /\ text[Len(text) - Len(part)] = AlternativeLabel
    /\ SubSeq(text, Len(text) - Len(part) + 1, Len(text)) = part

\* the text of a description, an absent one having none
DescriptionText(e) == IF TruthyStr(e.description) THEN Val(e.description) ELSE <<>>

\* C16: when the descriptions differ and the donor's (the less fresh record's)
\* is non-empty, the merged description contains the base's text and ends with
\* the label followed by the donor's text; when they are equal or the donor's
\* is empty, the merged description is the base's.
C16_Description ==
    (Returned /\ (FirstIsFresher \/ SecondIsFresher))
        => IF DescriptionText(Donor) # <<>>
                /\ DescriptionText(Donor) # DescriptionText(Base)
           THEN /\ EndsWithAlternative(DescriptionText(Val(merged)),
                                       DescriptionText(Donor))
                /\ ContainsText(DescriptionText(Val(merged)), DescriptionText(Base))
           ELSE DescriptionText(Val(merged)) = DescriptionText(Base)

----------------------------------------------------------------------------
(* The clustering pass applied to one list of loaded events under two      *)
(* configurations that differ in title_similarity_threshold only.          *)

MaxEvents == 4

\* "abc", "ab", "bc", "abcde": ratios 0.8, 0.8, 0.75 to the first, 0.5
\* between the second and the third
ClusterTitles ==
    {<<"a", "b", "c">>, <<"a", "b">>, <<"b", "c">>, <<"a", "b", "c", "d", "e">>}
ClusterStartTimes == {0, 1, 2}
ClusterConfig(threshold) == DuplicateConfig(threshold, 1, FALSE, FALSE, TRUE, TRUE)

\* rows as the SELECT returns them: ids distinct, created_at ascending;
\* the first one is titled "abc" and starts at minute 1
LoadedLists ==
    {[n \in 1..MaxEvents |->
        Event(Some(n), f[n][1], None, f[n][2], Some(3), None,
              Some(<<"source1">>), Some(n))] :
       f \in {g \in [1..MaxEvents -> ClusterTitles \X ClusterStartTimes] :
                g[1] = <<(<<"a", "b", "c">>), 1>>}}

PairIdle ==
    /\ event1 = None /\ event2 = None /\ is_dup = None /\ merged = None

InitCluster ==
    /\ events \in LoadedLists
    /\ config = ClusterConfig(80)
    /\ config_low = ClusterConfig(60)
    /\ res_high = None
    /\ res_low = None
    /\ PairIdle
    /\ db = {} /\ txn = None /\ pc = "idle"
    /\ merged_events = <<>> /\ duplicate_count = 0 /\ inserted = 0
    /\ pre_db = {} /\ runs = <<>> /\ seen = None
    /\ FetchIdle

\* the pass under config and under config_low
RunClustering ==
    /\ res_high = None
    /\ res_high' = Some(find_and_merge_duplicates(events, config))
    /\ res_low' = Some(find_and_merge_duplicates(events, config_low))
    /\ UNCHANGED <<pairVars, config, config_low, db, txn, pc, events,
                   merged_events, duplicate_count, inserted, pre_db, runs, seen,
                   fetchVars>>

NextCluster == RunClustering

SpecCluster == InitCluster /\ [][NextCluster]_vars

\* C6: for one list of loaded records and configurations that differ in the
\* threshold only, the duplicate_count of the pass under the lower threshold
\* is at least the duplicate_count under the higher threshold.
C6_CountMonotone ==
    (res_high # None /\ ~IsRaised(Val(res_high)) /\ ~IsRaised(Val(res_low)))
        => Val(res_low).duplicate_count >= Val(res_high).duplicate_count

----------------------------------------------------------------------------
(* The clustering pass applied to three reports of one event whose titles  *)
(* are 'Workshop', 'Workshop!' and 'Workshop Session', in that order        *)

TitleWorkshop == <<"W", "o", "r", "k", "s", "h", "o", "p">>
TitleWorkshopBang == TitleWorkshop \o <<"!">>
TitleWorkshopSession == TitleWorkshop \o <<" ", "S", "e", "s", "s", "i", "o", "n">>
ChainTitles == <<TitleWorkshop, TitleWorkshopBang, TitleWorkshopSession>>
ChainStartTimes == {0, 60, 120}
ChainEndTimes == {None, Some(180)}

\* same-source rows in created_at order, every start_time within the window
\* of every other
ChainLists ==
    {[n \in 1..3 |->
        Event(Some(n), ChainTitles[n], None, f[n][1], f[n][2], None,
              Some(<<"source1">>), Some(n))] :
       f \in [1..3 -> ChainStartTimes \X ChainEndTimes]}

InitChain ==
    /\ events \in ChainLists
    /\ config = DefaultConfig
    /\ config_low = DuplicateConfig(60, DefaultTimeWindow, FALSE, FALSE, TRUE, TRUE)
    /\ res_high = None
    /\ res_low = None
    /\ PairIdle
    /\ db = {} /\ txn = None /\ pc = "idle"
    /\ merged_events = <<>> /\ duplicate_count = 0 /\ inserted = 0
    /\ pre_db = {} /\ runs = <<>> /\ seen = None
    /\ FetchIdle

SpecChain == InitChain /\ [][NextCluster]_vars

\* C17 (as stated): the pass under the default config reduces the three
\* records to exactly one record and returns duplicate_count = 2.
C17_ChainCollapses ==
    res_high # None
        => /\ ~IsRaised(Val(res_high))
           /\ Len(Val(res_high).merged_events) = 1
           /\ Val(res_high).duplicate_count = 2

\* C17 (amended): when 'Workshop' and 'Workshop!' both have an end_time the
\* pass returns two records and duplicate_count = 1: 'Workshop!' is merged
\* into 'Workshop', the accumulator keeps the title 'Workshop', and 'Workshop
\* Session' stays a record of its own; otherwise the merge of the first two
\* raises TypeError.
C17_ChainStopsAtSession ==
    res_high # None
        => IF events[1].end_time # None /\ events[2].end_time # None
           THEN /\ ~IsRaised(Val(res_high))
                /\ Val(res_high).duplicate_count = 1
                /\ Len(Val(res_high).merged_events) = 2
                /\ Val(res_high).merged_events[1].title = TitleWorkshop
                /\ Val(res_high).merged_events[1].id = Some(1)
                /\ Val(res_high).merged_events[2] = events[3]
           ELSE Val(res_high) = Raised(TypeError)

C17_Witness ==
    /\ res_high # None
    /\ ~IsRaised(Val(res_high))
    /\ Val(res_high).duplicate_count = 1
    /\ Len(Val(res_high).merged_events) = 2
    /\ events[3].start_time = events[1].start_time

----------------------------------------------------------------------------
(* The clustering pass over records whose start and end times vary *)

EnvelopeStartTimes == {0, 1, 2}
EnvelopeEndTimes == {None, Some(3), Some(4)}

\* the first record starts at minute 1 and ends at minute 3
EnvelopeLists ==
    {[n \in 1..MaxEvents |->
        Event(Some(n), <<"a", "b", "c">>, None, f[n][1], f[n][2], None,
              Some(<<"source1">>), Some(n))] :
       f \in {g \in [1..MaxEvents -> EnvelopeStartTimes \X EnvelopeEndTimes] :
                g[1] = <<1, Some(3)>>}}

InitEnvelope ==
    /\ events \in EnvelopeLists
    /\ config = ClusterConfig(80)
    /\ config_low = ClusterConfig(60)
    /\ res_high = None
    /\ res_low = None
    /\ PairIdle
    /\ db = {} /\ txn = None /\ pc = "idle"
    /\ merged_events = <<>> /\ duplicate_count = 0 /\ inserted = 0
    /\ pre_db = {} /\ runs = <<>> /\ seen = None
    /\ FetchIdle

SpecEnvelope == InitEnvelope /\ [][NextCluster]_vars

\* the accumulators of a pass that completes, each with the ids of the records
\* it absorbed (its seed included), in the order of merged_events
RECURSIVE Accumulators(_, _, _, _)
Accumulators(evs, i, processed_ids, cfg) ==
    IF i > Len(evs) THEN <<>>
    ELSE IF evs[i].id \in processed_ids
    THEN Accumulators(evs, i + 1, processed_ids, cfg)
    ELSE LET r == merge_following(evs, i + 1, evs[i], processed_ids, 0, cfg)
         IN <<[current_event |-> r.current_event,
               absorbed |-> {evs[i].id} \cup (r.processed_ids \ processed_ids)]>>
              \o Accumulators(evs, i + 1, r.processed_ids \cup {evs[i].id}, cfg)

Least(S) == CHOOSE x \in S : \A y \in S : x <= y
Greatest(S) == CHOOSE x \in S : \A y \in S : y <= x

\* the latest end_time of the records that have one
LatestEnd(members) ==
    LET present == {Val(e.end_time) : e \in {m \in members : m.end_time # None}}
    IN IF present = {} THEN None ELSE Some(Greatest(present))

\* when the pass over evs completes, every accumulator spans exactly the records
\* it absorbed
Envelope(evs, cfg) ==
    LET r == find_and_merge_duplicates(evs, cfg)
        acc == Accumulators(evs, 1, {}, cfg)
    IN ~IsRaised(r) =>
          /\ Len(acc) = Len(r.merged_events)
          /\ \A k \in 1..Len(acc) :
                LET members == {evs[n] : n \in {m \in 1..Len(evs) : evs[m].id \in acc[k].absorbed}}
                IN /\ r.merged_events[k] = acc[k].current_event
                   /\ acc[k].current_event.start_time
                         = Least({e.start_time : e \in members})
                   /\ acc[k].current_event.end_time = LatestEnd(members)

\* C23: after the merges of every prefix of the loaded list, each accumulator
\* starts at the earliest start_time and ends at the latest end_time of the
\* records absorbed into it
C23_Envelope ==
    res_high # None =>
        \A n \in 1..Len(events) : Envelope(SubSeq(events, 1, n), config)

\* a pass that completed after two merges into one accumulator, the second of
\* which moved the start earlier and the end later
C23_Witness ==
    /\ res_high # None
    /\ ~IsRaised(Val(res_high))
    /\ Val(res_high).duplicate_count >= 2
    /\ events[1].start_time = 1 /\ events[2].start_time = 2 /\ events[3].start_time = 0
    /\ events[1].end_time = Some(3) /\ events[3].end_time = Some(4)
    /\ Val(res_high).merged_events[1].start_time = 0
    /\ Val(res_high).merged_events[1].end_time = Some(4)

----------------------------------------------------------------------------
(* The clustering pass over rows whose created_at may tie or be NULL *)

PartitionCreated == {None, Some(1), Some(2)}

\* ORDER BY created_at ASC: NULL sorts first
SortsBefore(c1, c2) == c1 = None \/ (c2 # None /\ Val(c1) <= Val(c2))

\* rows as the SELECT returns them: ids distinct, created_at ascending with
\* NULL first
PartitionLists ==
    {[n \in 1..MaxEvents |->
        Event(Some(n), <<"a", "b", "c">>, None, f[n][1], Some(3), None,
              Some(<<"source1">>), f[n][2])] :
       f \in {g \in [1..MaxEvents -> ClusterStartTimes \X PartitionCreated] :
                \A m, n \in 1..MaxEvents : m < n => SortsBefore(g[m][2], g[n][2])}}

InitPartition ==
    /\ events \in PartitionLists
    /\ config = ClusterConfig(80)
    /\ config_low = ClusterConfig(60)
    /\ res_high = None
    /\ res_low = None
    /\ PairIdle
    /\ db = {} /\ txn = None /\ pc = "idle"
    /\ merged_events = <<>> /\ duplicate_count = 0 /\ inserted = 0
    /\ pre_db = {} /\ runs = <<>> /\ seen = None
    /\ FetchIdle

SpecPartition == InitPartition /\ [][NextCluster]_vars

LoadedIds == {events[n].id : n \in 1..Len(events)}

\* C26: the accumulators of a completed pass are the output records, the sets
\* of ids they absorbed are disjoint and cover the loaded ids, and
\* len(merged_events) + duplicate_count is the number of loaded records
C26_Partition ==
    (res_high # None /\ ~IsRaised(Val(res_high))) =>
        LET acc == Accumulators(events, 1, {}, config)
            out == Val(res_high).merged_events
        IN /\ Len(out) + Val(res_high).duplicate_count = Len(events)
           /\ Len(acc) = Len(out)
           /\ \A k \in 1..Len(acc) : out[k] = acc[k].current_event
           /\ \A k, l \in 1..Len(acc) : k # l => acc[k].absorbed \cap acc[l].absorbed = {}
           /\ UNION {acc[k].absorbed : k \in 1..Len(acc)} = LoadedIds

\* a pass with one seed that absorbed two records and one that absorbed none
C26_Witness ==
    /\ res_high # None
    /\ ~IsRaised(Val(res_high))
    /\ Val(res_high).duplicate_count = 2
    /\ Len(Val(res_high).merged_events) = 2

\* C27: the ids of the output records of a completed pass are pairwise
\* distinct, and each is the id of a record absorbed into that output record
C27_DistinctIds ==
    (res_high # None /\ ~IsRaised(Val(res_high))) =>
        LET acc == Accumulators(events, 1, {}, config)
            out == Val(res_high).merged_events
        IN /\ Len(acc) = Len(out)
           /\ \A k \in 1..Len(out) : out[k].id \in acc[k].absorbed
           /\ \A k, l \in 1..Len(out) : k # l => out[k].id # out[l].id

\* a pass with two output records, one of which took the id of the record it
\* absorbed
C27_Witness ==
    /\ res_high # None
    /\ ~IsRaised(Val(res_high))
    /\ Len(Val(res_high).merged_events) >= 2
    /\ \E k \in 1..Len(Val(res_high).merged_events) :
          \A n \in 1..Len(events) :
              events[n].id = Val(res_high).merged_events[k].id
                 => \E m \in 1..(n - 1) : events[m].id \notin
                       {Val(res_high).merged_events[l].id :
                          l \in 1..Len(Val(res_high).merged_events)}

----------------------------------------------------------------------------
(* are_events_duplicate called with its two records in either order: the   *)
(* incremental check passes (new record, stored record) at line 270, the   *)
(* clustering pass (accumulator, later record) at line 188.                *)

TitleTide == <<"t", "i", "d", "e">>
TitleDiet == <<"d", "i", "e", "t">>
TitleAaaaaba == <<"a", "a", "a", "a", "a", "b", "a">>
TitleAabaaab == <<"a", "a", "b", "a", "a", "a", "b">>
OrderTitles == {TitleAb, TitleAbc, TitleTide, TitleDiet, TitleAaaaaba, TitleAabaaab}
OrderConfigs ==
    {DefaultConfig,
     DuplicateConfig(50, DefaultTimeWindow, FALSE, FALSE, TRUE, TRUE),
     DuplicateConfig(DefaultThreshold, DefaultTimeWindow, TRUE, TRUE, TRUE, TRUE)}

InitOrder ==
    /\ event1 \in {Event(Some(1), t, None, 0, Some(180), None, Some(<<"source1">>), Some(0)) :
                     t \in OrderTitles}
    /\ event2 \in {Event(None, t, None, s, e, l, Some(<<"source2">>), None) :
                     t \in OrderTitles, s \in {0, 120, 121}, e \in {None, Some(180)},
                     l \in {None, Some(<<"R", "o", "o", "m">>)}}
    /\ config \in OrderConfigs
    /\ is_dup = None
    /\ merged = None
    /\ StoreIdle
    /\ ClusterIdle
    /\ FetchIdle

SpecOrder == InitOrder /\ [][NextPair]_vars

\* C21: the decision for (event1, event2) is the decision for (event2, event1)
C21_OrderIndependent ==
    is_dup # None => Val(is_dup) = are_events_duplicate(event2, event1, config)

----------------------------------------------------------------------------
(* deduplicate_database on the events table.  The table is the set db of   *)
(* committed rows; the connection opened at line 137 writes into txn, its  *)
(* uncommitted view, from the first DELETE or INSERT until it commits or   *)
(* rolls back.  Other connections read db.                                 *)

MaxRows == 3
MaxRuns == 2

StoreTitles == {<<"a", "b", "c">>}
StoreStartTimes == {0, 1, 2}
StoreEndTimes == {None, Some(3)}

\* tables of MaxRows rows with the ids 1..MaxRows, created in the order of their ids
StoredTables ==
    {{Event(Some(n), f[n][1], None, f[n][2], f[n][3], None,
            Some(<<"source1">>), Some(n)) : n \in 1..MaxRows} :
       f \in [1..MaxRows -> StoreTitles \X StoreStartTimes \X StoreEndTimes]}

\* SELECT ... ORDER BY created_at ASC: the rows in an order in which created_at
\* never decreases (NULL first), any such order when values tie
SelectAll(rows) ==
    {l \in [1..Cardinality(rows) -> rows] :
        /\ \A m, n \in 1..Cardinality(rows) : m # n => l[m] # l[n]
        /\ \A m, n \in 1..Cardinality(rows) :
              m < n => SortsBefore(l[m].created_at, l[n].created_at)}

InitStore ==
    /\ db \in StoredTables
    /\ config = DuplicateConfig(DefaultThreshold, 1, FALSE, FALSE, TRUE, TRUE)
    /\ txn = None
    /\ pc = "idle"
    /\ events = <<>>
    /\ merged_events = <<>>
    /\ duplicate_count = 0
    /\ inserted = 0
    /\ pre_db = {}
    /\ runs = <<>>
    /\ seen = None
    /\ PairIdle
    /\ ClusterIdle
    /\ FetchIdle

RunRecord(ok, count, rows) == [ok |-> ok, duplicate_count |-> count, rows |-> rows]

\* a start_time text that datetime.fromisoformat rejects
Unparsable == -1

\* lines 152-172: a row whose Event cannot be built is logged and skipped
Parses(row) == row.start_time # Unparsable

\* lines 137-195: connect, SELECT, build the Event objects, find and merge the
\* duplicates; an exception of the pass leaves the with block, which rolls back
LoadAndCluster ==
    /\ pc \in {"idle", "done", "failed"}
    /\ Len(runs) < MaxRuns
    /\ pre_db' = db
    /\ \E l \in SelectAll(db) :
          /\ events' = SelectSeq(l, Parses)
          /\ LET r == find_and_merge_duplicates(SelectSeq(l, Parses), config)
             IN IF IsRaised(r)
                THEN /\ pc' = "failed"
                     /\ runs' = Append(runs, RunRecord(FALSE, 0, db))
                     /\ UNCHANGED <<merged_events, duplicate_count>>
                ELSE /\ pc' = "clustered"
                     /\ merged_events' = r.merged_events
                     /\ duplicate_count' = r.duplicate_count
                     /\ runs' = runs
    /\ inserted' = 0
    /\ seen' = None
    /\ UNCHANGED <<db, txn, config, pairVars, clusterVars,
                   fetchVars>>

\* a variant of line 198 on a connection in autocommit mode
DeleteAutocommit ==
    /\ pc = "clustered"
    /\ db' = {}
    /\ txn' = Some({})
    /\ pc' = "inserting"
    /\ seen' = None
    /\ UNCHANGED <<config, events, merged_events, duplicate_count, inserted,
                   pre_db, runs, pairVars, clusterVars,
                   fetchVars>>

\* line 198: DELETE FROM events, which opens the transaction
Delete ==
    /\ pc = "clustered"
    /\ txn' = Some({})
    /\ pc' = "inserting"
    /\ seen' = None
    /\ UNCHANGED <<db, config, events, merged_events, duplicate_count, inserted,
                   pre_db, runs, pairVars, clusterVars,
                   fetchVars>>

\* lines 200-223: INSERT the next merged event; an id already present violates
\* the primary key, the exception leaves the with block, which rolls back
Insert ==
    /\ pc = "inserting"
    /\ inserted < Len(merged_events)
    /\ LET row == merged_events[inserted + 1]
       IN IF \E r \in Val(txn) : r.id = row.id
          THEN /\ txn' = None
               /\ pc' = "failed"
               /\ runs' = Append(runs, RunRecord(FALSE, duplicate_count, db))
               /\ UNCHANGED inserted
          ELSE /\ txn' = Some(Val(txn) \cup {row})
               /\ inserted' = inserted + 1
               /\ UNCHANGED <<pc, runs>>
    /\ seen' = None
    /\ UNCHANGED <<db, config, events, merged_events, duplicate_count, pre_db,
                   pairVars, clusterVars,
                   fetchVars>>

\* line 225: conn.commit() publishes the rows written since the DELETE
Commit ==
    /\ pc = "inserting"
    /\ inserted = Len(merged_events)
    /\ db' = Val(txn)
    /\ txn' = None
    /\ pc' = "done"
    /\ runs' = Append(runs, RunRecord(TRUE, duplicate_count, Val(txn)))
    /\ seen' = None
    /\ UNCHANGED <<config, events, merged_events, duplicate_count, inserted,
                   pre_db, pairVars, clusterVars,
                   fetchVars>>

\* line 137: an sqlite3 error raised by the DELETE, an INSERT or the commit
\* leaves the with block, whose exit rolls the transaction back
StoreFailure ==
    /\ pc \in {"clustered", "inserting"}
    /\ txn' = None
    /\ pc' = "failed"
    /\ runs' = Append(runs, RunRecord(FALSE, duplicate_count, db))
    /\ seen' = None
    /\ UNCHANGED <<db, config, events, merged_events, duplicate_count, inserted,
                   pre_db, pairVars, clusterVars,
                   fetchVars>>

\* another connection queries the table while the run is between two steps
Read ==
    /\ pc \in {"clustered", "inserting", "done", "failed"}
    /\ seen = None
    /\ seen' = Some(db)
    /\ UNCHANGED <<db, txn, pc, config, events, merged_events, duplicate_count,
                   inserted, pre_db, runs, pairVars, clusterVars,
                   fetchVars>>

Next == LoadAndCluster \/ Delete \/ Insert \/ Commit \/ StoreFailure \/ Read

Init == InitStore

Spec == Init /\ [][Next]_vars

\* the rows the run is about to leave in the table
MergedRows == {merged_events[n] : n \in 1..Len(merged_events)}

\* C3: a run that follows a successful run reports no duplicate and leaves
\* the table as that run left it.
C3_Idempotent ==
    \A n \in 1..Len(runs) :
        (n > 1 /\ runs[n - 1].ok /\ runs[n].ok)
            => /\ runs[n].duplicate_count = 0
               /\ runs[n].rows = runs[n - 1].rows

\* C4: when a step of the run fails after the records are loaded, the table
\* holds exactly the rows it held before the run, and no uncommitted write
\* of the run remains.
C4_AllOrNothing ==
    pc = "failed" => db = pre_db /\ txn = None

C4_Witness ==
    /\ pc = "failed"
    /\ duplicate_count > 0
    /\ inserted > 0
    /\ inserted < Len(merged_events)
    /\ db = pre_db

\* C5: what a concurrent reader reads during or after a run is the complete
\* table of before the run or the complete table the run leaves.
C5_ReaderSeesPreOrPost ==
    seen # None
        => \/ Val(seen) = pre_db
           \/ pc = "done" /\ Val(seen) = MergedRows

C5_Witness ==
    /\ seen # None
    /\ pc = "inserting"
    /\ duplicate_count > 0
    /\ inserted > 0
    /\ inserted < Len(merged_events)
    /\ Val(seen) = pre_db
    /\ Val(txn) # pre_db

----------------------------------------------------------------------------
(* deduplicate_database on a table some of whose rows hold a start_time     *)
(* that does not parse                                                      *)

ParseTables ==
    {{Event(Some(n), <<"a", "b", "c">>, None, f[n], Some(3), None,
            Some(<<"source1">>), Some(n)) : n \in 1..MaxRows} :
       f \in [1..MaxRows -> StoreStartTimes \cup {Unparsable}]}

InitParse ==
    /\ db \in ParseTables
    /\ config = DuplicateConfig(DefaultThreshold, 1, FALSE, FALSE, TRUE, TRUE)
    /\ txn = None
    /\ pc = "idle"
    /\ events = <<>>
    /\ merged_events = <<>>
    /\ duplicate_count = 0
    /\ inserted = 0
    /\ pre_db = {}
    /\ runs = <<>>
    /\ seen = None
    /\ PairIdle
    /\ ClusterIdle
    /\ FetchIdle

SpecParse == InitParse /\ [][Next]_vars

\* C25: after a run that committed, every row stored before it belongs to an
\* accumulator of the pass whose merged record is in the table
C25_NothingDropped ==
    pc = "done" =>
        LET acc == Accumulators(events, 1, {}, config)
        IN \A r \in pre_db :
              \E k \in 1..Len(acc) :
                  /\ r.id \in acc[k].absorbed
                  /\ acc[k].current_event \in db

----------------------------------------------------------------------------
(* deduplicate_database on a table that holds the records of two sources,   *)
(* and the deduplicate command of scripts/events.py, which asks for the run *)
(* of one source.                                                           *)

StoreSources == {Some(<<"source1">>), Some(<<"source2">>)}

\* tables of MaxRows rows with the ids 1..MaxRows, each of one of the sources
SourceTables ==
    {{Event(Some(n), <<"a", "b", "c">>, None, f[n][1], Some(3), None, f[n][2], Some(n)) :
         n \in 1..MaxRows} :
       f \in [1..MaxRows -> StoreStartTimes \X StoreSources]}

InitSources ==
    /\ db \in SourceTables
    /\ config = DuplicateConfig(DefaultThreshold, 1, FALSE, FALSE, TRUE, TRUE)
    /\ txn = None
    /\ pc = "idle"
    /\ events = <<>>
    /\ merged_events = <<>>
    /\ duplicate_count = 0
    /\ inserted = 0
    /\ pre_db = {}
    /\ runs = <<>>
    /\ seen = None
    /\ PairIdle
    /\ ClusterIdle
    /\ FetchIdle

\* scripts/events.py line 576: deduplicate_database(config, source_name=source_name).
\* The function has the parameters db_path and config only (line 132), so the
\* call raises TypeError before the table is opened
DeduplicateCommand ==
    /\ pc \in {"idle", "done", "failed"}
    /\ Len(runs) < MaxRuns
    /\ pre_db' = db
    /\ pc' = "failed"
    /\ runs' = Append(runs, RunRecord(FALSE, 0, db))
    /\ seen' = None
    /\ UNCHANGED <<db, txn, config, events, merged_events, duplicate_count,
                   inserted, pairVars, clusterVars,
                   fetchVars>>

NextSources == Next \/ DeduplicateCommand

SpecSources == InitSources /\ [][NextSources]_vars

\* C20: a completed run is the run of one source: the rows of every other
\* source are in the table after the run as they were before it
C20_OtherSourcesUnchanged ==
    pc = "done" =>
        \E s \in StoreSources :
            \A r \in pre_db : r.source_name # s => r \in db

----------------------------------------------------------------------------
(* save_events_to_db (scripts/update_events.py, lines 40-95): each record  *)
(* of a scraped batch is checked against the committed table by a          *)
(* connection of its own, then written by the connection of the batch,     *)
(* which commits once after the last record.                               *)

IngestStartTimes == {120, 240, 361}
IngestEndTimes == {None, Some(400)}
IngestTitles == {TitleAb, TitleAbc}

\* tables of two rows with the ids 1 and 2
IngestTables ==
    {{Event(Some(n), f[n][1], None, f[n][2], f[n][3], None,
            Some(<<"source1">>), Some(n)) : n \in 1..2} :
       f \in [1..2 -> IngestTitles \X IngestStartTimes \X IngestEndTimes]}

\* a scraped record: no id and no created_at before it is stored
ScrapedEvents ==
    {Event(None, t, None, s, e, None, Some(<<"source2">>), None) :
       t \in IngestTitles, s \in {240, 241}, e \in IngestEndTimes}

ScrapedBatches ==
    {<<e>> : e \in ScrapedEvents} \cup {<<e, f>> : e \in ScrapedEvents, f \in ScrapedEvents}

\* SELECT without ORDER BY (lines 241-249): the rows in any order
FetchOrders(rows) ==
    {l \in [1..Cardinality(rows) -> rows] :
        \A m, n \in 1..Cardinality(rows) : m # n => l[m] # l[n]}

\* the table as the connection of the batch sees it
BatchView == IF txn = None THEN db ELSE Val(txn)

\* lines 55-69: UPDATE events SET ... WHERE id = ?
UpdateRows(rows, m) ==
    {IF r.id = m.id /\ m.id # None
     THEN [r EXCEPT !.title = m.title, !.description = m.description,
                    !.start_time = FromIsoFormat(IsoFormat(m.start_time)),
                    !.end_time = m.end_time, !.location = m.location,
                    !.source_url = m.source_url, !.source_name = m.source_name]
     ELSE r : r \in rows}

\* the id given to a row inserted without one
NextId(rows) ==
    IF rows = {} THEN 1
    ELSE 1 + CHOOSE n \in {Val(r.id) : r \in rows} : \A r \in rows : Val(r.id) <= n

\* lines 73-87: INSERT INTO events (title, description, start_time, end_time,
\* location, source_url, source_name)
InsertRowOf(rows, e) ==
    rows \cup {[Event(Some(NextId(rows)), e.title, e.description,
                      FromIsoFormat(IsoFormat(e.start_time)), e.end_time,
                      e.location, e.source_name, None)
                  EXCEPT !.source_url = e.source_url]}

InitIngest ==
    /\ db \in IngestTables
    /\ events \in ScrapedBatches
    /\ config = DefaultConfig
    /\ txn = None
    /\ pc = "idle"
    /\ merged = None
    /\ merged_events = <<>>
    /\ duplicate_count = 0
    /\ inserted = 0
    /\ pre_db = db
    /\ runs = <<>>
    /\ seen = None
    /\ event1 = None /\ event2 = None /\ is_dup = None
    /\ ClusterIdle
    /\ FetchIdle

\* line 52: merged_event = check_duplicate_before_insert(event, db_path, config)
CheckDuplicate ==
    /\ pc = "idle"
    /\ inserted < Len(events)
    /\ \E rows \in FetchOrders(db) :
          merged' = Some(check_duplicate_before_insert(events[inserted + 1], rows, config))
    /\ pc' = "checked"
    /\ UNCHANGED <<event1, event2, config, is_dup, db, txn, events, merged_events,
                   duplicate_count, inserted, pre_db, runs, seen, clusterVars,
                   fetchVars>>

\* lines 53-70: the record matched a stored row, which is updated
UpdateRow ==
    /\ pc = "checked"
    /\ Val(merged) # None
    /\ txn' = Some(UpdateRows(BatchView, Val(Val(merged))))
    /\ duplicate_count' = duplicate_count + 1
    /\ inserted' = inserted + 1
    /\ pc' = "idle"
    /\ UNCHANGED <<event1, event2, config, is_dup, merged, db, events, merged_events,
                   pre_db, runs, seen, clusterVars,
                   fetchVars>>

\* lines 71-87: no match was returned, the record is inserted as a new row
InsertRow ==
    /\ pc = "checked"
    /\ Val(merged) = None
    /\ txn' = Some(InsertRowOf(BatchView, events[inserted + 1]))
    /\ inserted' = inserted + 1
    /\ pc' = "idle"
    /\ UNCHANGED <<event1, event2, config, is_dup, merged, db, events, merged_events,
                   duplicate_count, pre_db, runs, seen, clusterVars,
                   fetchVars>>

\* line 89: conn.commit() after the last record
CommitBatch ==
    /\ pc = "idle"
    /\ inserted = Len(events)
    /\ db' = BatchView
    /\ txn' = None
    /\ pc' = "done"
    /\ UNCHANGED <<event1, event2, config, is_dup, merged, events, merged_events,
                   duplicate_count, inserted, pre_db, runs, seen, clusterVars,
                   fetchVars>>

\* lines 92-95: an error of a statement or of the commit leaves the with
\* block, which rolls back; the error is logged
SaveFailure ==
    /\ pc \in {"idle", "checked"}
    /\ txn' = None
    /\ pc' = "failed"
    /\ UNCHANGED <<event1, event2, config, is_dup, merged, db, events, merged_events,
                   duplicate_count, inserted, pre_db, runs, seen, clusterVars,
                   fetchVars>>

NextIngest == CheckDuplicate \/ UpdateRow \/ InsertRow \/ CommitBatch \/ SaveFailure

SpecIngest == InitIngest /\ [][NextIngest]_vars

\* the record under check and the stored rows that are its duplicates
NewRecord == events[inserted + 1]
StoredDuplicates == {r \in db : are_events_duplicate(NewRecord, RowToEvent(r), config)}

\* C18: once check_duplicate_before_insert has returned, its result is
\* merge_events(candidate, new_record) for a stored row that is a duplicate of
\* the new record, and it is None exactly when no stored row is a duplicate of
\* the new record
C18_FirstMatchOrNothing ==
    pc = "checked" =>
        IF StoredDuplicates = {}
        THEN Val(merged) = None
        ELSE Val(merged) \in {Some(merge_events(RowToEvent(r), NewRecord)) : r \in StoredDuplicates}

\* the record written last, and whether it was written by the INSERT
LastRecord == events[inserted]
InsertedAsNew == pc \in {"idle", "done"} /\ inserted > 0 /\ Val(merged) = None

\* C19: a record for which merge_events raised on a stored duplicate is never
\* inserted as a row of its own
C19_FailurePropagates ==
    InsertedAsNew =>
        ~ \E r \in pre_db :
             /\ are_events_duplicate(LastRecord, RowToEvent(r), config)
             /\ IsRaised(merge_events(RowToEvent(r), LastRecord))

\* the second record of the batch is a duplicate of the first, both have an
\* end_time, and neither is a duplicate of a row committed before the batch
DuplicateWithinBatch ==
    /\ Len(events) = 2
    /\ are_events_duplicate(events[2], events[1], config)
    /\ events[1].end_time # None
    /\ events[2].end_time # None
    /\ \A r \in pre_db :
          /\ ~are_events_duplicate(events[1], RowToEvent(r), config)
          /\ ~are_events_duplicate(events[2], RowToEvent(r), config)

\* C29: when both records of such a batch are written, the second was merged
\* into the row of the first, so the batch added one row
C29_BatchDuplicateMerged ==
    (DuplicateWithinBatch /\ inserted = 2 /\ pc \in {"idle", "done"}) =>
        Cardinality(BatchView) = Cardinality(pre_db) + 1

----------------------------------------------------------------------------
(* save_events_to_db with records that carry a created_at of their own:    *)
(* the Facebook scraper sets created_at to the date of the post            *)
(* (src/scrapers/facebook.py, lines 329-346).                              *)

StampedTables ==
    {{Event(Some(n), f[n][1], None, f[n][2], Some(400), None,
            Some(<<"source1">>), f[n][3]) : n \in 1..2} :
       f \in [1..2 -> IngestTitles \X {120, 240} \X {None, Some(1), Some(2)}]}

StampedEvents ==
    {Event(None, t, None, 240, Some(400), None, Some(<<"source2">>), c) :
       t \in IngestTitles, c \in {None, Some(0), Some(1), Some(3)}}

InitStamped ==
    /\ db \in StampedTables
    /\ events \in {<<e>> : e \in StampedEvents}
    /\ config = DefaultConfig
    /\ txn = None
    /\ pc = "idle"
    /\ merged = None
    /\ merged_events = <<>>
    /\ duplicate_count = 0
    /\ inserted = 0
    /\ pre_db = db
    /\ runs = <<>>
    /\ seen = None
    /\ event1 = None /\ event2 = None /\ is_dup = None
    /\ ClusterIdle
    /\ FetchIdle

SpecStamped == InitStamped /\ [][NextIngest]_vars

\* C24: a merged record returned by check_duplicate_before_insert is the merge
\* with a stored duplicate of the new record and has the id of that row
C24_MergedIdIsStoredId ==
    (pc = "checked" /\ Val(merged) # None) =>
        \E r \in StoredDuplicates :
            /\ Val(merged) = Some(merge_events(RowToEvent(r), NewRecord))
            /\ Val(Val(merged)).id = r.id

----------------------------------------------------------------------------
(* save_events_to_db with records that were scraped again unchanged: each   *)
(* record of the batch has the title, times, description, location and      *)
(* source_name of a stored row, and no id or created_at yet.                *)

ScrapedAgain(row) ==
    Event(None, row.title, row.description, row.start_time, row.end_time,
          row.location, row.source_name, None)

InitReingest ==
    /\ db \in IngestTables
    /\ events \in {<<ScrapedAgain(r)>> : r \in db}
                    \cup {<<ScrapedAgain(r), ScrapedAgain(q)>> : r \in db, q \in db}
    /\ config = DefaultConfig
    /\ txn = None
    /\ pc = "idle"
    /\ merged = None
    /\ merged_events = <<>>
    /\ duplicate_count = 0
    /\ inserted = 0
    /\ pre_db = db
    /\ runs = <<>>
    /\ seen = None
    /\ event1 = None /\ event2 = None /\ is_dup = None
    /\ ClusterIdle
    /\ FetchIdle

SpecReingest == InitReingest /\ [][NextIngest]_vars

\* C28: the check of a record that is a stored row scraped again returns a
\* record equal to that stored row in every field
C28_ReingestionStable ==
    pc = "checked" =>
        /\ Val(merged) # None
        /\ \E r \in db :
              /\ ScrapedAgain(r) = NewRecord
              /\ Val(Val(merged)) = r

----------------------------------------------------------------------------
(* FacebookGroupScraper._fetch_posts (src/scrapers/facebook.py, lines       *)
(* 224-261) behind the cached_request decorator (src/utils/decorators.py,   *)
(* lines 41-101).  The scraper has the attributes cache_config and          *)
(* cache_manager (facebook.py, lines 48-49).                                *)

max_poll_attempts == 20

\* CacheConfig as the decorator reads it: is_cache_enabled(self.name()) and
\* should_use_live(self.name())
CacheConfigs == {[enabled |-> e, force_live |-> f] : e \in BOOLEAN, f \in BOOLEAN}

\* the cache file latest_posts: absent, empty, or holding posts
CachedPosts == <<"cached posts">>
LivePosts == <<"live posts">>
CacheFiles == {None, Some(<<>>), Some(CachedPosts)}

\* _fetch_posts(url=..., snapshot_id=...)
Calls == {[url |-> u, snapshot_id |-> n] :
            u \in {None, Some(<<"trigger">>)}, n \in {None, Some(<<"s1">>)}}

InitFetch ==
    /\ cache_config \in {Some(c) : c \in CacheConfigs}
    /\ cache \in CacheFiles
    /\ call \in {Some(c) : c \in Calls}
    /\ fetch_pc = "idle"
    /\ live_calls = 0
    /\ result = None
    /\ attempts = 0
    /\ checks = 0
    /\ ready = FALSE
    /\ PairIdle
    /\ config = DefaultConfig
    /\ StoreIdle
    /\ ClusterIdle

\* what a call that returned leaves
Returns(value) == [value |-> value]

\* cache.py lines 88-117: CacheManager.load raises CacheError when the file is
\* absent and returns its text otherwise
load(file) == IF file = None THEN Raised("CacheError") ELSE Returns(Val(file))

\* decorators.py lines 67-70: the cache is consulted
ConsultsCache(cfg) == ~cfg.force_live /\ cfg.enabled

\* decorators.py lines 43-83: the wrapper up to the call of the wrapped function
Wrapper ==
    /\ fetch_pc = "idle"
    /\ LET cfg == Val(cache_config)
           cached_content == load(cache)
       IN IF Val(call).url = None
          THEN /\ result' = Some(Raised("ValueError"))
               /\ fetch_pc' = "raised"
          ELSE IF ConsultsCache(cfg) /\ IsRaised(cached_content)
          THEN /\ result' = Some(Raised("CacheMissError"))
               /\ fetch_pc' = "raised"
          ELSE IF ConsultsCache(cfg) /\ cached_content.value # <<>>
          THEN /\ result' = Some(cached_content)
               /\ fetch_pc' = "returned"
          ELSE /\ result' = result
               /\ fetch_pc' = "live"
    /\ UNCHANGED <<cache_config, cache, call, live_calls, attempts, checks, ready,
                   pairVars, config, storeVars, clusterVars>>

\* decorators.py line 87 and facebook.py lines 236-237: the wrapped function is
\* called with a snapshot_id and goes to the snapshot at once
CallWithSnapshot ==
    /\ fetch_pc = "live"
    /\ Val(call).snapshot_id # None
    /\ live_calls' = live_calls + 1
    /\ fetch_pc' = "snapshot"
    /\ UNCHANGED <<cache_config, cache, call, result, attempts, checks, ready,
                   pairVars, config, storeVars, clusterVars>>

\* decorators.py line 87 and facebook.py lines 240-251: the wrapped function is
\* called without a snapshot_id and triggers a scrape, which gives a
\* snapshot id or None
TriggerScrape ==
    /\ fetch_pc = "live"
    /\ Val(call).snapshot_id = None
    /\ live_calls' = live_calls + 1
    /\ \E snapshot_id \in {None, Some(<<"s2">>)} :
          IF snapshot_id = None
          THEN /\ result' = Some(Raised("Failed to trigger scrape"))
               /\ fetch_pc' = "raised"
          ELSE /\ result' = result
               /\ fetch_pc' = "polling"
    /\ attempts' = 0
    /\ UNCHANGED <<cache_config, cache, call, checks, ready,
                   pairVars, config, storeVars, clusterVars>>

\* a loop condition that admits one more round
keeps_polling_inclusive(n) == n <= max_poll_attempts

\* facebook.py line 252: while attempts < self.max_poll_attempts
keeps_polling(n) == n < max_poll_attempts

\* facebook.py lines 252-259 and 161-188: one round of the loop; a status
\* check that fails returns False
CheckStatus ==
    /\ fetch_pc = "polling"
    /\ keeps_polling(attempts)
    /\ checks' = checks + 1
    /\ \E status \in {"ready", "running", "error"} :
          IF status = "ready"
          THEN /\ ready' = TRUE
               /\ fetch_pc' = "snapshot"
               /\ attempts' = attempts
          ELSE /\ ready' = ready
               /\ fetch_pc' = fetch_pc
               /\ attempts' = attempts + 1
    /\ UNCHANGED <<cache_config, cache, call, live_calls, result,
                   pairVars, config, storeVars, clusterVars>>

\* facebook.py line 261: the loop ended without a ready status
TimeOut ==
    /\ fetch_pc = "polling"
    /\ ~keeps_polling(attempts)
    /\ result' = Some(Raised("Scrape timed out or failed to retrieve results"))
    /\ fetch_pc' = "raised"
    /\ UNCHANGED <<cache_config, cache, call, live_calls, attempts, checks, ready,
                   pairVars, config, storeVars, clusterVars>>

\* facebook.py lines 190-222: _fetch_posts_from_snapshot returns the posts or
\* raises; decorators.py lines 89-100: the wrapper saves what the wrapped
\* function returned when caching is enabled, and returns it
FetchSnapshot ==
    /\ fetch_pc = "snapshot"
    /\ \E ok \in BOOLEAN :
          IF ok
          THEN /\ result' = Some(Returns(LivePosts))
               /\ fetch_pc' = "returned"
               /\ cache' = IF Val(cache_config).enabled THEN Some(LivePosts) ELSE cache
          ELSE /\ result' = Some(Raised("RequestException"))
               /\ fetch_pc' = "raised"
               /\ cache' = cache
    /\ UNCHANGED <<cache_config, call, live_calls, attempts, checks, ready,
                   pairVars, config, storeVars, clusterVars>>

NextFetch ==
    Wrapper \/ CallWithSnapshot \/ TriggerScrape \/ CheckStatus \/ TimeOut \/ FetchSnapshot

SpecFetch == InitFetch /\ [][NextFetch]_vars

\* every request of the scraper returns, and no step waits for ever
SpecFetchFair == SpecFetch /\ WF_vars(NextFetch)

Finished == fetch_pc \in {"returned", "raised"}
RaisedWith(exc) == result = Some(Raised(exc))

\* C22: when force_live is false and the cache holds no file for the request,
\* a decorated call with a url never calls the wrapped function and ends with
\* CacheMissError
C22_CacheMissRaises ==
    (/\ cache_config # None
     /\ ~Val(cache_config).force_live
     /\ cache = None
     /\ Val(call).url # None)
    => /\ live_calls = 0
       /\ Finished => RaisedWith("CacheMissError")

WithoutSnapshotId == call # None /\ Val(call).snapshot_id = None
TimedOut == RaisedWith("Scrape timed out or failed to retrieve results")

\* C30: a call without a snapshot_id ends; a failed trigger raises before any
\* status check; there are at most max_poll_attempts status checks; the
\* snapshot is fetched only after a check reported ready; and the call raises
\* the timeout error exactly when max_poll_attempts checks went by without one
C30_FetchPostsTerminates ==
    /\ [](WithoutSnapshotId => checks <= max_poll_attempts)
    /\ [](WithoutSnapshotId /\ RaisedWith("Failed to trigger scrape")
            => checks = 0)
    /\ [](WithoutSnapshotId /\ fetch_pc = "snapshot" => ready)
    /\ [](WithoutSnapshotId /\ fetch_pc = "returned" /\ live_calls > 0 => ready)
    /\ [](WithoutSnapshotId /\ TimedOut => checks = max_poll_attempts /\ ~ready)
    /\ [](WithoutSnapshotId /\ Finished /\ checks = max_poll_attempts /\ ~ready
            => TimedOut)
    /\ (WithoutSnapshotId => <>Finished)

\* the loop ran out after max_poll_attempts checks
C30_Witness == WithoutSnapshotId /\ TimedOut /\ checks = max_poll_attempts

====
